---- MODULE Spec2Model ----
(***************************************************************************)
(* The LangGraph learning workflow of backend/agents: the five agent nodes *)
(* (langgraph_agents/*.py), the conditional-edge routers and the graph     *)
(* wiring of LearningAgentWorkflow (langgraph_workflow.py), run by         *)
(* run_workflow_sync.                                                      *)
(*                                                                         *)
(* The compiled graph is executed in supersteps.  A node that ran triggers *)
(* the target of its unconditional edge (add_edge) and the target its      *)
(* conditional edge selects (add_conditional_edges); every triggered node  *)
(* runs once in the next superstep.  AgentState declares no reducers, so   *)
(* every key is a last-value channel: a superstep in which two nodes       *)
(* return the state makes the update invalid (InvalidUpdateError), which   *)
(* run_workflow_sync catches.  The lists `errors` and `messages` are only  *)
(* ever appended to in place, so the appends of one task are seen by the   *)
(* tasks that run after it even when the superstep's update is rejected.   *)
(*                                                                         *)
(* The graph is compiled with a MemorySaver: invoke() saves the channel    *)
(* values as the checkpoint of the run's thread (its session_id) when the  *)
(* input has been written and after every superstep whose update was       *)
(* applied; a checkpoint is a serialized copy.  get_workflow_status reads  *)
(* the latest checkpoint of a thread.                                      *)
(*                                                                         *)
(* The constructor of the engine is modelled statement by statement        *)
(* (ConstructionSpec); the runs are those of an engine whose construction  *)
(* has completed.  process_new_learner wraps one run: it inserts the       *)
(* learner profile, runs the workflow and writes the records of a          *)
(* successful result (ProcessSpec).                                        *)
(***************************************************************************)
EXTENDS Integers, Sequences, FiniteSets, TLC

VARIABLES st, scheduled, status, raised, supersteps, last, count, streak, verdicts,
          initial_state, put_failed, saved, seen, peer, engine, db, reply

vars == <<st, scheduled, status, raised, supersteps, last, count, streak, verdicts,
          initial_state, put_failed, saved, seen, peer, engine, db, reply>>

(* ------------------------------ bounds --------------------------------- *)

\* resources (and so content tasks) one run plans at most
MaxResources == 2
\* quiz questions the generator returns for one content record at most
MaxQuestions == 1
\* the highest knowledge_level a learner profile carries
MaxLevel == 2

(* ------------------------- program constants --------------------------- *)

\* the literal 3 of `retry_count < 3` in the routers and in ProfileAnalysisAgent
RetryCeiling == 3
\* supersteps one invoke() may run (LangGraph's default recursion_limit)
RecursionLimit == 25
\* stages.length x (ceiling + 1)
MaxInvocations == Cardinality({"profile_analysis", "path_planning", "content_generation",
                               "assessment_generation", "orchestration"}) * (RetryCeiling + 1)

Nodes ==
  {"profile_analysis", "path_planning", "content_generation",
   "assessment_generation", "orchestration"}

END == "__end__"

ResourceIds == 1..MaxResources

RECURSIVE SeqsUpTo(_, _)
SeqsUpTo(S, n) ==
  IF n = 0 THEN {<<>>}
  ELSE LET shorter == SeqsUpTo(S, n - 1)
       IN  shorter \cup {Append(q, x) : q \in {r \in shorter : Len(r) = n - 1}, x \in S}

RECURSIVE Repeat(_, _)
Repeat(x, n) == IF n = 0 THEN <<>> ELSE <<x>> \o Repeat(x, n - 1)

(* ------------------------------ AgentState ----------------------------- *)

\* _create_initial_state: the state a run starts from.  learner_profile is
\* kept as its truthiness (an empty dict is falsy), difficulty_level as the
\* profile's knowledge_level; session_id is the fresh uuid4 of the call.
InitialState(profile, level, session_id) ==
  [ session_id          |-> session_id,
    learner_profile     |-> profile,
    learning_path_id    |-> 0,
    current_resources   |-> <<>>,
    learning_objectives |-> <<>>,
    difficulty_level    |-> level,
    weak_areas          |-> <<>>,
    generated_content   |-> <<>>,
    quiz_questions      |-> <<>>,
    assessment_strategy |-> FALSE,
    messages            |-> <<>>,
    current_agent       |-> "ProfileAnalysisAgent",
    workflow_step       |-> "profile_analysis",
    errors              |-> <<>>,
    retry_count         |-> 0,
    should_continue     |-> TRUE,
    next_action         |-> "start_workflow",
    learning_package    |-> FALSE,
    workflow_status     |-> "none" ]

Message(sender, receiver, type, content) ==
  [sender |-> sender, receiver |-> receiver, type |-> type, content |-> content]

(* ------------------------- Generator outcomes -------------------------- *)

ProfileKeys == {"learning_objectives", "recommended_difficulty", "focus_areas"}

\* What the LLM behind a node does in one invocation: it raises, or it
\* returns JSON whose keys and values the node then uses.
NoGen ==
  [ raises    |-> FALSE,
    keys      |-> ProfileKeys,
    objs      |-> <<1>>,
    diff      |-> 2,
    focus     |-> <<1>>,
    hasRes    |-> TRUE,
    resources |-> <<1>>,
    counts    |-> [i \in 1..MaxResources |-> 1] ]

ProfileGens ==
  {[NoGen EXCEPT !.raises = TRUE]} \cup
  {[NoGen EXCEPT !.keys = k, !.objs = o] : k \in SUBSET ProfileKeys, o \in {<<>>, <<1>>}}

PathGens ==
  {[NoGen EXCEPT !.raises = TRUE], [NoGen EXCEPT !.hasRes = FALSE]} \cup
  {[NoGen EXCEPT !.resources = r] : r \in SeqsUpTo(ResourceIds, MaxResources)}

ContentGens == {[NoGen EXCEPT !.raises = TRUE], NoGen}

AssessmentGens ==
  {[NoGen EXCEPT !.raises = TRUE]} \cup
  {[NoGen EXCEPT !.counts = c] : c \in [1..MaxResources -> 0..MaxQuestions]}

OrchestratorGens == {[NoGen EXCEPT !.raises = TRUE], NoGen}

GensOf(n) ==
  CASE n = "profile_analysis"      -> ProfileGens
    [] n = "path_planning"         -> PathGens
    [] n = "content_generation"    -> ContentGens
    [] n = "assessment_generation" -> AssessmentGens
    [] n = "orchestration"         -> OrchestratorGens

(* ------------------------------ the agents ----------------------------- *)

\* the except branch adding len(errors) to retry_count instead of 1
ProfileExceptCountingErrors(s) ==
  LET r == [s EXCEPT !.errors = Append(@, "Profile analysis failed"),
                     !.retry_count = @ + Len(s.errors) + 1]
  IN  [r EXCEPT !.should_continue = (r.retry_count < RetryCeiling)]

\* ProfileAnalysisAgent.__call__, the except branch
ProfileExcept(s) ==
  LET r == [s EXCEPT !.errors = Append(@, "Profile analysis failed"),
                     !.retry_count = @ + 1]
  IN  [r EXCEPT !.should_continue = (r.retry_count < RetryCeiling)]

\* ProfileAnalysisAgent.__call__: analysis_result[...] raises KeyError at the
\* first key the generator's JSON lacks, after the assignments before it.
ProfileAnalysisAgent(s, g) ==
  IF ~s.learner_profile
  THEN [s EXCEPT !.errors = Append(@, "No learner profile provided"),
                 !.should_continue = FALSE]
  ELSE IF g.raises \/ "learning_objectives" \notin g.keys
  THEN ProfileExcept(s)
  ELSE LET s1 == [s EXCEPT !.learning_objectives = g.objs] IN
       IF "recommended_difficulty" \notin g.keys
       THEN ProfileExcept(s1)
       ELSE LET s2 == [s1 EXCEPT !.difficulty_level = g.diff] IN
            IF "focus_areas" \notin g.keys
            THEN ProfileExcept(s2)
            ELSE [s2 EXCEPT
                   !.weak_areas = g.focus,
                   !.messages = Append(@, Message("ProfileAnalysisAgent", "PathPlannerAgent",
                                                  "profile_analysis_complete", 0)),
                   !.current_agent = "PathPlannerAgent",
                   !.workflow_step = "path_planning"]

\* PathPlannerAgent._get_latest_message: is there a message of that type
HasMessage(s, type) == \E i \in 1..Len(s.messages) : s.messages[i].type = type

\* PathPlannerAgent._generate_learning_tasks: one task per resource
LearningTasks(resources) ==
  [i \in 1..Len(resources) |->
     Message("PathPlannerAgent", "ContentGeneratorAgent", "content_generation_task",
             resources[i])]

\* the planner assigning its tasks to `messages` instead of appending them
PathPlannerAgentRewritingLog(s, g, pathId) ==
  IF ~HasMessage(s, "profile_analysis_complete")
  THEN [s EXCEPT !.errors = Append(@, "No profile analysis found"),
                 !.should_continue = FALSE]
  ELSE IF g.raises \/ ~g.hasRes
  THEN [s EXCEPT !.errors = Append(@, "Path planning failed"),
                 !.retry_count = @ + 1]
  ELSE [s EXCEPT !.current_resources = g.resources,
                 !.learning_path_id = pathId,
                 !.messages = LearningTasks(g.resources),
                 !.current_agent = "ContentGeneratorAgent",
                 !.workflow_step = "content_generation"]

\* PathPlannerAgent.__call__; pathId is the fresh uuid of learning_path_id
PathPlannerAgent(s, g, pathId) ==
  IF ~HasMessage(s, "profile_analysis_complete")
  THEN [s EXCEPT !.errors = Append(@, "No profile analysis found"),
                 !.should_continue = FALSE]
  ELSE IF g.raises \/ ~g.hasRes
  THEN [s EXCEPT !.errors = Append(@, "Path planning failed"),
                 !.retry_count = @ + 1]
  ELSE [s EXCEPT !.current_resources = g.resources,
                 !.learning_path_id = pathId,
                 !.messages = @ \o LearningTasks(g.resources),
                 !.current_agent = "ContentGeneratorAgent",
                 !.workflow_step = "content_generation"]

\* ContentGeneratorAgent._get_content_tasks
ContentTasks(s) ==
  LET IsTask(m) == m.receiver = "ContentGeneratorAgent" /\ m.type = "content_generation_task"
      tasks == SelectSeq(s.messages, IsTask)
  IN  [i \in 1..Len(tasks) |-> tasks[i].content]

\* the except branch clearing retry_count instead of incrementing it
ContentGeneratorAgentResetting(s, g) ==
  LET content_tasks == ContentTasks(s) IN
  IF content_tasks = <<>>
  THEN [s EXCEPT !.current_agent = "AssessmentAgent",
                 !.workflow_step = "assessment_generation"]
  ELSE IF g.raises
  THEN [s EXCEPT !.errors = Append(@, "Content generation failed"),
                 !.retry_count = 0]
  ELSE [s EXCEPT !.generated_content = content_tasks,
                 !.messages = Append(@, Message("ContentGeneratorAgent", "AssessmentAgent",
                                                "content_generation_complete",
                                                Len(content_tasks))),
                 !.current_agent = "AssessmentAgent",
                 !.workflow_step = "assessment_generation"]

\* ContentGeneratorAgent.__call__: one content record per task, carrying the
\* task's resource id
ContentGeneratorAgent(s, g) ==
  LET content_tasks == ContentTasks(s) IN
  IF content_tasks = <<>>
  THEN [s EXCEPT !.current_agent = "AssessmentAgent",
                 !.workflow_step = "assessment_generation"]
  ELSE IF g.raises
  THEN [s EXCEPT !.errors = Append(@, "Content generation failed"),
                 !.retry_count = @ + 1]
  ELSE [s EXCEPT !.generated_content = content_tasks,
                 !.messages = Append(@, Message("ContentGeneratorAgent", "AssessmentAgent",
                                                "content_generation_complete",
                                                Len(content_tasks))),
                 !.current_agent = "AssessmentAgent",
                 !.workflow_step = "assessment_generation"]

\* AssessmentAgent.__call__, the loop over generated_content: the questions
\* _generate_quiz_questions returns for each record, tagged with its id
RECURSIVE QuizQuestions(_, _, _)
QuizQuestions(content, counts, i) ==
  IF i > Len(content) THEN <<>>
  ELSE Repeat(content[i], counts[i]) \o QuizQuestions(content, counts, i + 1)

\* AssessmentAgent.__call__
AssessmentAgent(s, g) ==
  IF s.generated_content = <<>>
  THEN [s EXCEPT !.errors = Append(@, "No content available for assessment generation")]
  ELSE IF g.raises
  THEN [s EXCEPT !.errors = Append(@, "Assessment generation failed")]
  ELSE LET quiz_questions == QuizQuestions(s.generated_content, g.counts, 1) IN
       [s EXCEPT !.quiz_questions = quiz_questions,
                 !.assessment_strategy = TRUE,
                 !.messages = Append(@, Message("AssessmentAgent", "OrchestratorAgent",
                                                "assessment_generation_complete",
                                                Len(quiz_questions))),
                 !.current_agent = "OrchestratorAgent",
                 !.workflow_step = "orchestration_complete",
                 !.should_continue = TRUE]

\* OrchestratorAgent._validate_workflow_completion: missing_components.
\* learner_profile is a dict, never None, so it is never missing.
MissingComponents(s) ==
  {c \in {"learning_objectives", "generated_content", "quiz_questions", "learning_path_id"} :
     \/ c = "learning_objectives" /\ Len(s.learning_objectives) = 0
     \/ c = "generated_content"   /\ Len(s.generated_content) = 0
     \/ c = "quiz_questions"      /\ Len(s.quiz_questions) = 0
     \/ c = "learning_path_id"    /\ s.learning_path_id = 0}

\* OrchestratorAgent._handle_incomplete_workflow
HandleIncompleteWorkflow(s, missing) ==
  LET e == [s EXCEPT !.errors = Append(@, "Workflow incomplete")] IN
  IF "generated_content" \in missing
  THEN [e EXCEPT !.next_action = "restart_content_generation",
                 !.current_agent = "ContentGeneratorAgent"]
  ELSE IF "quiz_questions" \in missing
  THEN [e EXCEPT !.next_action = "restart_assessment_generation",
                 !.current_agent = "AssessmentAgent"]
  ELSE [e EXCEPT !.should_continue = FALSE,
                 !.next_action = "manual_intervention_required"]

\* the except branch swallowing the exception without recording it
OrchestratorAgentSwallowing(s, g) ==
  LET missing == MissingComponents(s) IN
  IF missing # {}
  THEN HandleIncompleteWorkflow(s, missing)
  ELSE IF g.raises
  THEN s
  ELSE [s EXCEPT !.learning_package = TRUE,
                 !.workflow_status = "completed",
                 !.should_continue = FALSE,
                 !.next_action = "deliver_to_learner",
                 !.messages = Append(@, Message("OrchestratorAgent", "System",
                                                "workflow_complete", 0))]

\* OrchestratorAgent.__call__
OrchestratorAgent(s, g) ==
  LET missing == MissingComponents(s) IN
  IF missing # {}
  THEN HandleIncompleteWorkflow(s, missing)
  ELSE IF g.raises
  THEN [s EXCEPT !.errors = Append(@, "Orchestration failed")]
  ELSE [s EXCEPT !.learning_package = TRUE,
                 !.workflow_status = "completed",
                 !.should_continue = FALSE,
                 !.next_action = "deliver_to_learner",
                 !.messages = Append(@, Message("OrchestratorAgent", "System",
                                                "workflow_complete", 0))]

\* the callable add_node registers under each node name
RunNode(n, s, g, pathId) ==
  CASE n = "profile_analysis"      -> ProfileAnalysisAgent(s, g)
    [] n = "path_planning"         -> PathPlannerAgent(s, g, pathId)
    [] n = "content_generation"    -> ContentGeneratorAgent(s, g)
    [] n = "assessment_generation" -> AssessmentAgent(s, g)
    [] n = "orchestration"         -> OrchestratorAgent(s, g)

(* ------------------------------ the routers ---------------------------- *)

\* the body the four _should_continue_from_* functions share; `output` is
\* the state key the function tests
Route(s, output) ==
  IF s.errors # <<>> /\ s.retry_count < RetryCeiling THEN "retry"
  ELSE IF s.errors # <<>> THEN "end"
  ELSE IF output # <<>> THEN "continue"
  ELSE "retry"

should_continue_from_profile(s) == Route(s, s.learning_objectives)

should_continue_from_path(s) == Route(s, s.current_resources)

should_continue_from_content(s) == Route(s, s.generated_content)

should_continue_from_assessment(s) == Route(s, s.quiz_questions)

\* the verdict of the node's conditional edge; orchestration has none
Verdict(n, s) ==
  CASE n = "profile_analysis"      -> should_continue_from_profile(s)
    [] n = "path_planning"         -> should_continue_from_path(s)
    [] n = "content_generation"    -> should_continue_from_content(s)
    [] n = "assessment_generation" -> should_continue_from_assessment(s)
    [] n = "orchestration"         -> "none"

(* ------------------------------- the graph ----------------------------- *)

\* add_edge with the first edge leading back to its own start
EdgeTargetLooping(n) ==
  CASE n = "profile_analysis"      -> "profile_analysis"
    [] n = "path_planning"         -> "content_generation"
    [] n = "content_generation"    -> "assessment_generation"
    [] n = "assessment_generation" -> "orchestration"
    [] n = "orchestration"         -> END

\* workflow.add_edge(n, ...): the unconditional edge of each node
EdgeTarget(n) ==
  CASE n = "profile_analysis"      -> "path_planning"
    [] n = "path_planning"         -> "content_generation"
    [] n = "content_generation"    -> "assessment_generation"
    [] n = "assessment_generation" -> "orchestration"
    [] n = "orchestration"         -> END

\* workflow.add_conditional_edges(n, router, {...}): the path map of each
\* node that has one
BranchTarget(n, verdict) ==
  CASE verdict = "retry"    -> n
    [] verdict = "end"      -> END
    [] verdict = "none"     -> END
    [] verdict = "continue" ->
         CASE n = "profile_analysis"      -> "path_planning"
           [] n = "path_planning"         -> "content_generation"
           [] n = "content_generation"    -> "assessment_generation"
           [] n = "assessment_generation" -> "orchestration"

\* add_conditional_edges alone: a finished node triggers the target of its
\* verdict and nothing else
TriggeredByVerdictOnly(n, verdict) == {BranchTarget(n, verdict)} \ {END}

\* the nodes a finished node triggers for the next superstep
Triggered(n, verdict) == {EdgeTarget(n), BranchTarget(n, verdict)} \ {END}

(* --------------------------- the construction -------------------------- *)

\* the engines constructed, each by its own call of LearningAgentWorkflow(key)
Engines == {1, 2}

\* a statement of the constructor: its line, the attributes of self it
\* reads, and the attribute of self it assigns ("" when it assigns none)
Statement(line, reads, writes) == [line |-> line, reads |-> reads, writes |-> writes]

\* LearningAgentWorkflow.__init__ in the order of execution, the call of
\* _create_workflow in line 27 unfolded into the statements of its body
InitStatements ==
  << Statement(17, {}, "gemini_api_key"),
     Statement(20, {}, "profile_agent"),
     Statement(21, {}, "path_planner"),
     Statement(22, {}, "content_generator"),
     Statement(23, {}, "assessment_agent"),
     Statement(24, {}, "orchestrator"),
     Statement(36, {}, ""),
     Statement(39, {"profile_agent"}, ""),
     Statement(40, {"path_planner"}, ""),
     Statement(41, {"content_generator"}, ""),
     Statement(42, {"assessment_agent"}, ""),
     Statement(43, {"orchestrator"}, ""),
     Statement(46, {}, ""),
     Statement(47, {}, ""),
     Statement(48, {}, ""),
     Statement(49, {}, ""),
     Statement(50, {}, ""),
     Statement(53, {}, ""),
     Statement(56, {}, ""),
     Statement(66, {}, ""),
     Statement(76, {}, ""),
     Statement(86, {}, ""),
     Statement(96, {"memory"}, ""),
     Statement(27, {}, "workflow"),
     Statement(30, {}, "memory") >>

\* the line of workflow.compile(checkpointer=self.memory)
CompileLine == 96

\* self when __init__ is entered: no attribute assigned, no graph compiled
NewObject == [pc |-> 0, attrs |-> {}, raised |-> "none", compiled |-> FALSE]

\* the statement an engine under construction executes next
NextStatement(self) == InitStatements[self.pc + 1]

\* the statement executed: its assignment is made, the compile statement
\* hands the store to the graph
Assigned(self) ==
  LET s == NextStatement(self) IN
  [ pc       |-> self.pc + 1,
    attrs    |-> self.attrs \cup ({s.writes} \ {""}),
    raised   |-> "none",
    compiled |-> self.compiled \/ s.line = CompileLine ]

\* One statement of __init__: reading an attribute of self that was not
\* assigned raises AttributeError out of the constructor.
Execute(self) ==
  IF NextStatement(self).reads \subseteq self.attrs
  THEN Assigned(self)
  ELSE [self EXCEPT !.raised = "AttributeError"]

\* self after a constructor that ran to its end
RECURSIVE Executed(_)
Executed(self) ==
  IF self.pc = Len(InitStatements) THEN self ELSE Executed(Assigned(self))

\* The engine the runs are made on: every run and every status query needs
\* an engine whose construction has completed, with the graph compiled and
\* the store assigned.
EngineReady == engine = [e \in Engines |-> Executed(NewObject)]

(* ----------------------------- the records ----------------------------- *)

\* the collections of the database process_new_learner writes to
NoRecords ==
  [ learner_profiles   |-> <<>>,
    learning_paths     |-> <<>>,
    learning_resources |-> <<>>,
    quizzes            |-> <<>> ]

\* run_workflow_sync called directly: no record is written, nothing is
\* returned to a caller of process_new_learner
NoCaller == db = NoRecords /\ reply = <<>>

(* ------------------------------ the engine ----------------------------- *)

\* the orders in which the tasks of one superstep can take their turns
Orders(S) ==
  {o \in [1..Cardinality(S) -> S] : \A i, j \in 1..Cardinality(S) : i # j => o[i] # o[j]}

\* one generator outcome per task of the superstep
GenChoices(S) == {c \in [S -> UNION {GensOf(n) : n \in S}] : \A n \in S : c[n] \in GensOf(n)}

\* the content tasks a state holds after the path planner ran with outcome g
TasksAfter(s, g) ==
  Len(ContentTasks(s)) + (IF g.raises \/ ~g.hasRes THEN 0 ELSE Len(g.resources))

\* the required output of a stage, as its router tests it
Output(n, s) ==
  CASE n = "profile_analysis"      -> s.learning_objectives
    [] n = "path_planning"         -> s.current_resources
    [] n = "content_generation"    -> s.generated_content
    [] n = "assessment_generation" -> s.quiz_questions
    [] n = "orchestration"         -> <<>>

\* One task of a superstep: the node is called on the values the channels
\* held when the superstep began, except that `errors` and `messages` are
\* the list objects every task appends to; the node's conditional edge is
\* then evaluated on the state the node returned.
Task(n, base, errors, messages, g, ordinal) ==
  LET pre  == [base EXCEPT !.errors = errors, !.messages = messages]
      post == RunNode(n, pre, g, ordinal)
  IN  [node |-> n, pre |-> pre, post |-> post, verdict |-> Verdict(n, post)]

\* the tasks of one superstep, run in the given order
RECURSIVE RunTasks(_, _, _, _, _, _)
RunTasks(order, gens, base, errors, messages, ordinal) ==
  IF order = <<>> THEN <<>>
  ELSE LET t == Task(Head(order), base, errors, messages, gens[Head(order)], ordinal)
       IN  <<t>> \o RunTasks(Tail(order), gens, base, t.post.errors, t.post.messages,
                             ordinal + 1)

\* the update a node's return value makes: keys AgentState does not declare
\* (learning_package, workflow_status) are no channels and are dropped
ChannelValues(post) ==
  [post EXCEPT !.learning_package = FALSE, !.workflow_status = "none"]

\* a task recorded an error
Errored(t) == Len(t.post.errors) > Len(t.pre.errors)

\* The history of a run, per node: the number of invocations made, the
\* number of invocations made before the first that recorded no error, and
\* the verdicts of the conditional edge in the order they were given.
RECURSIVE Counted(_, _)
Counted(c, ts) ==
  IF ts = <<>> THEN c ELSE Counted([c EXCEPT ![Head(ts).node] = @ + 1], Tail(ts))

RECURSIVE Streaked(_, _, _)
Streaked(k, c, ts) ==
  IF ts = <<>> THEN k
  ELSE LET n == Head(ts).node
       IN  Streaked([k EXCEPT ![n] = IF Errored(Head(ts)) /\ k[n] = c[n] THEN @ + 1 ELSE @],
                    [c EXCEPT ![n] = @ + 1], Tail(ts))

RECURSIVE Judged(_, _)
Judged(v, ts) ==
  IF ts = <<>> THEN v
  ELSE Judged([v EXCEPT ![Head(ts).node] = Append(@, Head(ts).verdict)], Tail(ts))

\* stage invocations made so far
Invocations ==
  count["profile_analysis"] + count["path_planning"] + count["content_generation"]
    + count["assessment_generation"] + count["orchestration"]

\* one thread id for every run
thread_config_shared(state) == 1

\* thread_config of run_workflow_sync: the thread a run's checkpoints are
\* saved under
thread_config(state) == state.session_id

\* a checkpoint: the channel values after the superstep `step` (-1: input)
Checkpoint(step, values) == [step |-> step, values |-> values]

\* What the checkpointer's put does after a superstep: it saves; it raises
\* and invoke() raises at once (a put made inside the loop); or it raises
\* in the background and invoke() raises when the loop is left (a put
\* handed to the loop's executor, where every later put fails with it).
PutOutcomes == {"saved", "raises", "raises_later"}

\* A superstep with a single task: its update is applied and saved, the
\* nodes it triggers are scheduled; the run is over when none is, and it
\* raises GraphRecursionError when the recursion limit is used up before
\* that.
Superstep(n, g, put) ==
  LET t      == Task(n, st, st.errors, st.messages, g, Invocations + 1)
      next   == Triggered(n, t.verdict)
      failed == put_failed \/ put # "saved"
  IN  /\ status = "running"
      /\ scheduled = {n}
      /\ n = "path_planning" => TasksAfter(st, g) <= MaxResources
      /\ put_failed => put = "raises_later"
      /\ st' = ChannelValues(t.post)
      /\ last' = <<t>>
      /\ count' = Counted(count, <<t>>)
      /\ streak' = Streaked(streak, count, <<t>>)
      /\ verdicts' = Judged(verdicts, <<t>>)
      /\ supersteps' = supersteps + 1
      /\ put_failed' = failed
      /\ saved' = IF failed THEN saved
                  ELSE [saved EXCEPT ![thread_config(st)] =
                          <<Checkpoint(supersteps, ChannelValues(t.post))>>]
      /\ IF put = "raises" \/ (failed /\ next = {})
         THEN status' = "raised" /\ raised' = "CheckpointError" /\ scheduled' = {}
         ELSE IF next = {}
         THEN status' = "done" /\ raised' = "none" /\ scheduled' = {}
         ELSE IF supersteps' >= RecursionLimit
         THEN status' = "raised" /\ raised' = "GraphRecursionError" /\ scheduled' = {}
         ELSE status' = "running" /\ raised' = "none" /\ scheduled' = next
      /\ UNCHANGED <<initial_state, seen, peer, engine, db, reply>>

\* a superstep with a single task whose checkpoint is saved
Solo(n, g) == Superstep(n, g, "saved")

ProfileStep == \E g \in ProfileGens : Solo("profile_analysis", g)

PathStep == \E g \in PathGens : Solo("path_planning", g)

ContentStep == \E g \in ContentGens : Solo("content_generation", g)

AssessmentStep == \E g \in AssessmentGens : Solo("assessment_generation", g)

OrchestrationStep == \E g \in OrchestratorGens : Solo("orchestration", g)

\* A superstep with several tasks: all of them run, then the update of the
\* last-value channels fails with InvalidUpdateError and invoke() raises.
\* Only the in-place appends to `errors` and `messages` survive.
ConcurrentStep ==
  /\ status = "running"
  /\ Cardinality(scheduled) > 1
  /\ \E order \in Orders(scheduled), gens \in GenChoices(scheduled) :
       LET ts == RunTasks(order, gens, st, st.errors, st.messages, Invocations + 1)
       IN  /\ \A i \in 1..Len(ts) :
                ts[i].node = "path_planning" =>
                  TasksAfter(ts[i].pre, gens["path_planning"]) <= MaxResources
           /\ st' = [st EXCEPT !.errors = ts[Len(ts)].post.errors,
                               !.messages = ts[Len(ts)].post.messages]
           /\ last' = ts
           /\ count' = Counted(count, ts)
           /\ streak' = Streaked(streak, count, ts)
           /\ verdicts' = Judged(verdicts, ts)
           /\ supersteps' = supersteps + 1
           /\ status' = "raised"
           /\ raised' = "InvalidUpdateError"
           /\ scheduled' = {}
           /\ UNCHANGED <<initial_state, put_failed, saved, seen, peer, engine, db, reply>>

\* the sessions the service runs, and an id no run was ever given
Sessions == {1, 2}

UnknownSession == 0

\* the thread ids the checkpointer can be asked about
Threads == Sessions \cup {UnknownSession}

\* A run of run_workflow_sync that has entered invoke(): the input is
\* written to the channels and saved as the checkpoint of step -1, the entry
\* point profile_analysis is scheduled.
Started(state) ==
  /\ st = state
  /\ initial_state = state
  /\ scheduled = {"profile_analysis"}
  /\ status = "running"
  /\ raised = "none"
  /\ supersteps = 0
  /\ last = <<>>
  /\ count = [n \in Nodes |-> 0]
  /\ streak = [n \in Nodes |-> 0]
  /\ verdicts = [n \in Nodes |-> <<>>]
  /\ put_failed = FALSE

\* One call of run_workflow_sync.  The caller's profile is a dict (possibly
\* empty), its knowledge_level a small number.
Init ==
  /\ \E profile \in BOOLEAN, level \in 1..MaxLevel : Started(InitialState(profile, level, 1))
  /\ saved = [s \in Threads |-> IF s = thread_config(st) THEN <<Checkpoint(-1, st)>> ELSE <<>>]
  /\ seen = [s \in Threads |-> <<>>]
  /\ peer = <<>>
  /\ EngineReady
  /\ NoCaller

Next ==
  \/ ProfileStep
  \/ PathStep
  \/ ContentStep
  \/ AssessmentStep
  \/ OrchestrationStep
  \/ ConcurrentStep

Spec == Init /\ [][Next]_vars

\* invoke() runs the supersteps one after the other until the run is over
FairSpec == Spec /\ WF_vars(Next)

(* ------------------------- the result of a run ------------------------- *)

\* _extract_workflow_results
extract_workflow_results(final_state) ==
  IF final_state.errors # <<>>
  THEN [ success         |-> FALSE,
         errors          |-> final_state.errors,
         partial_results |->
           [ generated_content   |-> final_state.generated_content,
             quiz_questions      |-> final_state.quiz_questions,
             learning_objectives |-> final_state.learning_objectives ] ]
  ELSE [ success           |-> TRUE,
         learning_package  |-> final_state.learning_package,
         workflow_metadata |->
           [ session_id     |-> final_state.session_id,
             total_messages |-> Len(final_state.messages),
             workflow_step  |-> final_state.workflow_step ] ]

\* What run_workflow_sync returns once invoke() has returned or raised.  The
\* dict initial_state still holds the list objects the nodes appended to.
run_workflow_sync ==
  IF status = "raised"
  THEN [ success         |-> FALSE,
         error           |-> raised,
         partial_results |-> [initial_state EXCEPT !.errors = st.errors,
                                                   !.messages = st.messages] ]
  ELSE extract_workflow_results(st)

(* --------------------------- status queries ---------------------------- *)

\* workflow.get_state(config).values, as a sequence that is empty when the
\* thread has no checkpoint
get_state(session_id) ==
  IF saved[session_id] = <<>> THEN <<>> ELSE <<saved[session_id][1].values>>

\* values.get(key, default)
Get(values, key, default) == IF values = <<>> THEN default ELSE values[1][key]

\* the table `steps` with a last key that no node ever writes
calculate_progress_percentage_misspelt(values) ==
  LET current_step == Get(values, "workflow_step", "profile_analysis") IN
  CASE current_step = "profile_analysis"      -> 20
    [] current_step = "path_planning"         -> 40
    [] current_step = "content_generation"    -> 70
    [] current_step = "assessment_generation" -> 90
    [] current_step = "orchestration"         -> 100
    [] OTHER                                  -> 0

\* the table `steps` with a value out of order
calculate_progress_percentage_unordered(values) ==
  LET current_step == Get(values, "workflow_step", "profile_analysis") IN
  CASE current_step = "profile_analysis"       -> 20
    [] current_step = "path_planning"          -> 80
    [] current_step = "content_generation"     -> 70
    [] current_step = "assessment_generation"  -> 90
    [] current_step = "orchestration_complete" -> 100
    [] OTHER                                   -> 0

\* _calculate_progress_percentage
calculate_progress_percentage(values) ==
  LET current_step == Get(values, "workflow_step", "profile_analysis") IN
  CASE current_step = "profile_analysis"       -> 20
    [] current_step = "path_planning"          -> 40
    [] current_step = "content_generation"     -> 70
    [] current_step = "assessment_generation"  -> 90
    [] current_step = "orchestration_complete" -> 100
    [] OTHER                                   -> 0

\* the status built from the state the running thread holds instead of the
\* checkpoint it saved
get_workflow_status_of_live_state(session_id) ==
  LET values == IF session_id = st.session_id THEN <<st>> ELSE get_state(session_id) IN
  [ session_id          |-> session_id,
    current_step        |-> Get(values, "workflow_step", "unknown"),
    current_agent       |-> Get(values, "current_agent", "unknown"),
    progress_percentage |-> calculate_progress_percentage(values),
    errors              |-> Get(values, "errors", <<>>),
    should_continue     |-> Get(values, "should_continue", FALSE) ]

\* get_workflow_status, the try branch (get_state of a MemorySaver thread
\* does not raise)
get_workflow_status(session_id) ==
  LET values == get_state(session_id) IN
  [ session_id          |-> session_id,
    current_step        |-> Get(values, "workflow_step", "unknown"),
    current_agent       |-> Get(values, "current_agent", "unknown"),
    progress_percentage |-> calculate_progress_percentage(values),
    errors              |-> Get(values, "errors", <<>>),
    should_continue     |-> Get(values, "should_continue", FALSE) ]

\* the step of the latest checkpoint of a thread; -2 when it has none
LatestStep(session_id) ==
  IF saved[session_id] = <<>> THEN -2 ELSE saved[session_id][1].step

\* the thread ids a caller asks about: the sessions that were started, and
\* an id that is no session's
Asked ==
  {s \in Threads : \/ s = UnknownSession
                   \/ s = st.session_id
                   \/ \E i \in 1..Len(peer) : s = peer[i].st.session_id}

\* A caller asks for the status of a thread.  `seen` keeps, per thread, the
\* result of the latest query, the checkpoint it was made at, and the
\* checkpoint the query before it was made at (-3 when it is the first).
StatusQuery ==
  \E s \in Asked :
    /\ seen' = [seen EXCEPT ![s] =
                  <<[ at       |-> LatestStep(s),
                      result   |-> get_workflow_status(s),
                      previous |-> IF seen[s] = <<>> THEN -3 ELSE seen[s][1].at ]>>]
    /\ UNCHANGED <<st, scheduled, status, raised, supersteps, last, count, streak,
                   verdicts, initial_state, put_failed, saved, peer, engine, db, reply>>

\* one run and the status queries made while it progresses
StatusNext == Next \/ StatusQuery

StatusSpec == Init /\ [][StatusNext]_vars

(* ------------------------------ two runs ------------------------------- *)

\* the run a thread of the service is executing, with its history
Run(state) ==
  [ st            |-> state,
    initial_state |-> state,
    scheduled     |-> {"profile_analysis"},
    status        |-> "running",
    raised        |-> "none",
    supersteps    |-> 0,
    last          |-> <<>>,
    count         |-> [n \in Nodes |-> 0],
    streak        |-> [n \in Nodes |-> 0],
    verdicts      |-> [n \in Nodes |-> <<>>],
    put_failed    |-> FALSE ]

\* Two threads of the service have each called run_workflow_sync; session 2
\* is the one that is waiting.  The knowledge_level of a session's profile
\* is its number, so that the data of the two runs differ.
SessionsInit ==
  /\ \E profile \in BOOLEAN : Started(InitialState(profile, 1, 1))
  /\ \E profile \in BOOLEAN : peer = <<Run(InitialState(profile, 2, 2))>>
  /\ saved = [s \in Threads |->
                IF s = thread_config(peer[1].st) THEN <<Checkpoint(-1, peer[1].st)>>
                ELSE IF s = thread_config(st) THEN <<Checkpoint(-1, st)>>
                ELSE <<>>]
  /\ seen = [s \in Threads |-> <<>>]
  /\ EngineReady
  /\ NoCaller

\* the scheduler lets the other thread run: its run becomes the one the
\* steps act on
Switch ==
  /\ peer # <<>>
  /\ st' = peer[1].st
  /\ initial_state' = peer[1].initial_state
  /\ scheduled' = peer[1].scheduled
  /\ status' = peer[1].status
  /\ raised' = peer[1].raised
  /\ supersteps' = peer[1].supersteps
  /\ put_failed' = peer[1].put_failed
  /\ last' = peer[1].last
  /\ count' = peer[1].count
  /\ streak' = peer[1].streak
  /\ verdicts' = peer[1].verdicts
  /\ peer' = <<[ st            |-> st,
                 initial_state |-> initial_state,
                 scheduled     |-> scheduled,
                 status        |-> status,
                 raised        |-> raised,
                 supersteps    |-> supersteps,
                 last          |-> last,
                 count         |-> count,
                 streak        |-> streak,
                 verdicts      |-> verdicts,
                 put_failed    |-> put_failed ]>>
  /\ UNCHANGED <<saved, seen, engine, db, reply>>

SessionsNext == Next \/ Switch

SessionsSpec == SessionsInit /\ [][SessionsNext]_vars

(* ------------------------ checkpoints that fail ------------------------ *)

\* a superstep with a single task, whose checkpoint may fail to be saved
SavingStep ==
  \E n \in Nodes : \E g \in GensOf(n), put \in PutOutcomes : Superstep(n, g, put)

FaultNext == SavingStep \/ ConcurrentStep

FaultSpec == Init /\ [][FaultNext]_vars

(* ------------------------------ vocabulary ----------------------------- *)

\* the tasks of the latest superstep
LastTasks == {last[i] : i \in 1..Len(last)}

\* the stages that have a router
Stages == Nodes \ {"orchestration"}

TypeOK ==
  /\ scheduled \subseteq Nodes
  /\ status \in {"none", "running", "done", "raised"}
  /\ supersteps \in 0..RecursionLimit
  /\ st.retry_count \in Nat
  /\ put_failed \in BOOLEAN
  /\ DOMAIN saved = Threads
  /\ DOMAIN seen = Threads
  /\ Len(peer) <= 1
  /\ DOMAIN engine = Engines
  /\ DOMAIN db = DOMAIN NoRecords
  /\ Len(reply) <= 1

(* -------------------------------- claims ------------------------------- *)

\* C1: every run terminates after at most stages.length x (ceiling + 1) = 20
\* stage invocations, whatever the generators do: a run that is not over
\* can take a step, every step invokes a stage, and no more than 20
\* invocations are ever made.
C1_Termination ==
  /\ [](Invocations <= MaxInvocations /\ (status = "running" => ENABLED Next))
  /\ [][Invocations' > Invocations]_vars

\* a run that retried a stage that had failed, and is over
C1_Witness ==
  /\ status # "running"
  /\ \E n \in Nodes : count[n] > 1 /\ streak[n] > 0

\* the state keys a stage assigns when it succeeds
StageOutputs(n, s) ==
  CASE n = "profile_analysis"      -> <<s.learning_objectives, s.difficulty_level, s.weak_areas>>
    [] n = "path_planning"         -> <<s.current_resources, s.learning_path_id>>
    [] n = "content_generation"    -> <<s.generated_content>>
    [] n = "assessment_generation" -> <<s.quiz_questions, s.assessment_strategy>>
    [] n = "orchestration"         -> <<s.learning_package, s.workflow_status>>

\* C2: when the first k invocations of a stage (1 <= k < ceiling) each
\* recorded an error and the (k+1)-th produced the required output without
\* recording one, the verdict after it is `continue` and retry_count is k.
C2_SuccessAfterFailures ==
  \A t \in LastTasks : \A k \in 1..(RetryCeiling - 1) :
    ( /\ t.node \in Stages
      /\ count[t.node] = k + 1
      /\ streak[t.node] = k
      /\ ~Errored(t)
      /\ Output(t.node, t.post) # <<>> )
    => (t.verdict = "continue" /\ t.post.retry_count = k)

\* C3: a content-generation stage that the run reached by `continue` and
\* whose every invocation fails is invoked exactly 4 times, with the verdicts
\* retry, retry, retry, end, and the run ends with exactly 4 errors.
C3_ExhaustedRetries ==
  ( /\ status # "running"
    /\ verdicts["path_planning"] = <<"continue">>
    /\ count["content_generation"] > 0
    /\ streak["content_generation"] = count["content_generation"] )
  => ( /\ count["content_generation"] = RetryCeiling + 1
       /\ verdicts["content_generation"] = <<"retry", "retry", "retry", "end">>
       /\ Len(st.errors) = RetryCeiling + 1 )

\* C4: no stage is invoked once should_continue is false, and the verdict
\* after an invocation that set it to false is neither retry nor continue.
C4_StopsWhenShouldContinueFalse ==
  \A t \in LastTasks :
    /\ t.pre.should_continue
    /\ ~t.post.should_continue => t.verdict \notin {"retry", "continue"}

\* C5: retry_count never exceeds the ceiling, in the state of the run and
\* in the state any stage invocation returns.
C5_RetryCountBounded ==
  /\ st.retry_count <= RetryCeiling
  /\ \A t \in LastTasks : t.post.retry_count <= RetryCeiling

\* the retry of a stage that had failed has failed again, which is the
\* most failures a run counts
C5_Witness ==
  \E t \in LastTasks : Errored(t) /\ t.pre.retry_count = 1 /\ t.post.retry_count = 2

\* C6: an invocation that ends in failure leaves every output of its stage
\* as it was before the invocation.
C6_NoPartialWrites ==
  \A t \in LastTasks :
    Errored(t) => StageOutputs(t.node, t.post) = StageOutputs(t.node, t.pre)

\* C7: after every stage invocation, the output of the stage is populated
\* if and only if the verdict is `continue`.
C7_OutputIffContinue ==
  \A t \in LastTasks :
    t.node \in Stages => (Output(t.node, t.post) # <<>> <=> t.verdict = "continue")

\* C8: no stage invocation changes workflow_step, retry_count or
\* should_continue.
C8_NodesLeaveControlFields ==
  \A t \in LastTasks :
    /\ t.post.workflow_step = t.pre.workflow_step
    /\ t.post.retry_count = t.pre.retry_count
    /\ t.post.should_continue = t.pre.should_continue

\* C10: at most one stage executes in a step of the run, and the stage that
\* runs after it is the one the verdict selects and no other.
C10_OneSuccessorByVerdict ==
  /\ Cardinality(LastTasks) <= 1
  /\ \A t \in LastTasks :
       status = "running" => scheduled = {BranchTarget(t.node, t.verdict)} \ {END}

(* ------------------- the orchestration node on its own ----------------- *)

\* The states the nodes make of the initial state when they are called one
\* after the other along the edges profile_analysis -> path_planning ->
\* content_generation -> assessment_generation.
StatesBeforeOrchestration ==
  LET initial   == {InitialState(p, l, 1) : p \in BOOLEAN, l \in 1..MaxLevel}
      profiled  == {ProfileAnalysisAgent(s, g) : s \in initial, g \in ProfileGens}
      planned   == {PathPlannerAgent(s, g, 1) : s \in profiled, g \in PathGens}
      generated == {ContentGeneratorAgent(s, g) : s \in planned, g \in ContentGens}
      assessed  == {AssessmentAgent(s, g) : s \in generated, g \in AssessmentGens}
  IN  initial \cup profiled \cup planned \cup generated \cup assessed

\* OrchestratorAgent called as the node `orchestration` on such a state,
\* as a test of the node and its edge would call it
OrchestrationInit ==
  /\ st \in StatesBeforeOrchestration
  /\ initial_state = st
  /\ scheduled = {"orchestration"}
  /\ status = "running"
  /\ raised = "none"
  /\ supersteps = 0
  /\ last = <<>>
  /\ count = [n \in Nodes |-> 0]
  /\ streak = [n \in Nodes |-> 0]
  /\ verdicts = [n \in Nodes |-> <<>>]
  /\ put_failed = FALSE
  /\ saved = [s \in Threads |-> IF s = thread_config(st) THEN <<Checkpoint(-1, st)>> ELSE <<>>]
  /\ seen = [s \in Threads |-> <<>>]
  /\ peer = <<>>
  /\ EngineReady
  /\ NoCaller

OrchestrationSpec == OrchestrationInit /\ [][OrchestrationStep]_vars

NoRun ==
  /\ st = InitialState(FALSE, 1, UnknownSession)
  /\ initial_state = st
  /\ scheduled = {}
  /\ status = "none"
  /\ raised = "none"
  /\ supersteps = 0
  /\ last = <<>>
  /\ count = [n \in Nodes |-> 0]
  /\ streak = [n \in Nodes |-> 0]
  /\ verdicts = [n \in Nodes |-> <<>>]
  /\ put_failed = FALSE
  /\ saved = [s \in Threads |-> <<>>]
  /\ seen = [s \in Threads |-> <<>>]
  /\ peer = <<>>

\* LearningAgentWorkflow(key) was called for each engine
ConstructionInit ==
  /\ NoRun
  /\ NoCaller
  /\ engine = [e \in Engines |-> NewObject]

\* an engine's constructor executes its next statement
Construct ==
  \E e \in Engines :
    /\ engine[e].raised = "none"
    /\ engine[e].pc < Len(InitStatements)
    /\ engine' = [engine EXCEPT ![e] = Execute(engine[e])]
    /\ UNCHANGED <<st, scheduled, status, raised, supersteps, last, count, streak,
                   verdicts, initial_state, put_failed, saved, seen, peer, db, reply>>

ConstructionSpec == ConstructionInit /\ [][Construct]_vars

(* ------------------------- processing a learner ------------------------ *)

\* the id of the profile process_new_learner creates
ProfileId == 1

\* process_new_learner up to the call of run_workflow_sync: a profile_data
\* without a name makes _create_learner_profile raise, and the except branch
\* returns at once; otherwise the profile is inserted and the run is started
ProcessInit ==
  /\ EngineReady
  /\ \E named \in BOOLEAN, level \in 1..MaxLevel :
       IF named
       THEN /\ Started(InitialState(TRUE, level, 1))
            /\ saved = [s \in Threads |->
                          IF s = thread_config(st) THEN <<Checkpoint(-1, st)>> ELSE <<>>]
            /\ seen = [s \in Threads |-> <<>>]
            /\ peer = <<>>
            /\ db = [NoRecords EXCEPT !.learner_profiles =
                       <<[id |-> ProfileId, knowledge_level |-> level]>>]
            /\ reply = <<>>
       ELSE /\ NoRun
            /\ db = NoRecords
            /\ reply = <<[success |-> FALSE, error |-> "KeyError"]>>

\* process_new_learner from the return of run_workflow_sync on.  The
\* learning package of a successful result is the dict the final state
\* holds under learning_package, or {} when it holds none: then
\* learning_package["package_id"] raises KeyError into the except branch
\* before any record is written.
process_new_learner ==
  /\ status \in {"done", "raised"}
  /\ reply = <<>>
  /\ LET workflow_result == run_workflow_sync IN
     IF workflow_result.success
     THEN IF workflow_result.learning_package
          THEN /\ db' = [db EXCEPT
                   !.learning_paths = Append(@, [id |-> st.learning_path_id,
                                                 learner_id |-> ProfileId]),
                   !.learning_resources = @ \o st.generated_content,
                   !.quizzes = @ \o st.quiz_questions]
               /\ reply' = <<[ profile_id        |-> ProfileId,
                               path_id           |-> st.learning_path_id,
                               session_id        |-> workflow_result.workflow_metadata.session_id,
                               total_resources   |-> Len(st.generated_content),
                               total_assessments |-> Len(st.quiz_questions),
                               status            |-> "completed" ]>>
          ELSE /\ db' = db
               /\ reply' = <<[success |-> FALSE, error |-> "KeyError"]>>
     ELSE /\ db' = db
          /\ reply' = <<[ profile_id      |-> ProfileId,
                          status          |-> "failed",
                          errors          |-> IF "errors" \in DOMAIN workflow_result
                                              THEN workflow_result.errors ELSE <<>>,
                          partial_results |-> workflow_result.partial_results ]>>
  /\ UNCHANGED <<st, scheduled, status, raised, supersteps, last, count, streak,
                 verdicts, initial_state, put_failed, saved, seen, peer, engine>>

ProcessNext == Next \/ process_new_learner

ProcessSpec == ProcessInit /\ [][ProcessNext]_vars

(* ------------------------- claims on the state ------------------------- *)

\* list a is list b or a head part of it
IsPrefix(a, b) == Len(a) <= Len(b) /\ SubSeq(b, 1, Len(a)) = a

\* C11: messages and errors are append-only across every stage invocation
\* (with the router step after it) and across every step of the run: the
\* value before is a prefix of the value after.
C11_LogsAppendOnly ==
  /\ [](\A t \in LastTasks : /\ IsPrefix(t.pre.errors, t.post.errors)
                             /\ IsPrefix(t.pre.messages, t.post.messages))
  /\ [][IsPrefix(st.errors, st'.errors) /\ IsPrefix(st.messages, st'.messages)]_vars

\* a stage was invoked with both lists non-empty and appended to both
C11_Witness ==
  \E t \in LastTasks :
    /\ t.pre.errors # <<>> /\ t.pre.messages # <<>>
    /\ \E u \in LastTasks : Len(u.post.errors) > Len(t.pre.errors)
    /\ \E u \in LastTasks : Len(u.post.messages) > Len(t.pre.messages)

\* C12: retry_count never decreases within a stage activation: no stage
\* invocation returns less than it was given, and the count of the run only
\* goes down by being set to 0 when a stage was left by `continue` or when
\* final orchestration ran.
C12_RetryCountMonotonic ==
  /\ [](\A t \in LastTasks : t.post.retry_count >= t.pre.retry_count)
  /\ [][st'.retry_count < st.retry_count =>
          /\ st'.retry_count = 0
          /\ \E i \in 1..Len(last') :
               last'[i].verdict = "continue" \/ last'[i].node = "orchestration"]_vars

\* the second invocation of content generation has failed like the first
C12_Witness ==
  \E t \in LastTasks :
    /\ t.node = "content_generation"
    /\ count[t.node] = 2
    /\ t.pre.retry_count > 0
    /\ t.post.retry_count = t.pre.retry_count + 1

\* the workflow_step that names a stage: the keys of the table `steps`, in
\* the order of the stages
StepName(n) == IF n = "orchestration" THEN "orchestration_complete" ELSE n

\* C13: when a stage's first invocation produces its output and the run has
\* recorded no error, the verdict is `continue`, workflow_step becomes the
\* next stage of the sequence, and that stage is the one that runs next,
\* with retry_count 0.
C13_FirstTrySuccessAdvances ==
  \A t \in LastTasks :
    ( /\ t.node \in Stages
      /\ count[t.node] = 1
      /\ t.post.errors = <<>>
      /\ Output(t.node, t.post) # <<>> )
    => ( /\ t.verdict = "continue"
         /\ st.workflow_step = StepName(EdgeTarget(t.node))
         /\ scheduled = {EdgeTarget(t.node)}
         /\ st.retry_count = 0 )

\* the position of a reported current_step in the pipeline; 0 for the
\* "unknown" of a thread without checkpoint
StepRank(step) ==
  CASE step = "profile_analysis"       -> 1
    [] step = "path_planning"          -> 2
    [] step = "content_generation"     -> 3
    [] step = "assessment_generation"  -> 4
    [] step = "orchestration_complete" -> 5
    [] OTHER                           -> 0

\* C14: a status query never reports a current_step earlier in the pipeline
\* than the query before it for the same session did, nor a lower
\* progress_percentage.
C14_StatusNeverGoesBack ==
  [][\A s \in Threads :
       (seen[s] # <<>> /\ seen'[s] # <<>>) =>
         /\ StepRank(seen'[s][1].result.current_step)
              >= StepRank(seen[s][1].result.current_step)
         /\ seen'[s][1].result.progress_percentage
              >= seen[s][1].result.progress_percentage]_vars

\* the session was asked about at an earlier checkpoint and again when the
\* run had reached its last stage
C14_Witness ==
  \E s \in Sessions :
    /\ seen[s] # <<>>
    /\ seen[s][1].previous >= -1
    /\ seen[s][1].previous < seen[s][1].at
    /\ seen[s][1].result.current_step = "orchestration_complete"

\* the state of the run of a session, as the thread running it holds it
RunState(s) == IF st.session_id = s THEN st ELSE peer[1].st

\* C15: two runs with distinct session ids share no state: the checkpoint and
\* the status of a session hold what the run of that session committed and
\* nothing of the other run, and a step of one run changes neither the other
\* run nor its checkpoint.
C15_SessionsIsolated ==
  /\ [](\A s \in Sessions :
          LET values == saved[s][1].values
              own    == RunState(s)
          IN  /\ saved[s] # <<>>
              /\ values.session_id = s
              /\ [values EXCEPT !.errors = own.errors, !.messages = own.messages] = own
              /\ IsPrefix(values.errors, own.errors)
              /\ IsPrefix(values.messages, own.messages)
              /\ get_workflow_status(s).session_id = s
              /\ get_workflow_status(s).errors = values.errors)
  /\ [][st'.session_id = st.session_id =>
          /\ peer' = peer
          /\ \A s \in Sessions : s # st.session_id => saved'[s] = saved[s]]_vars

\* both runs are under way, one has recorded an error and the other has
\* not, and their checkpoints differ
C15_Witness ==
  /\ peer # <<>>
  /\ supersteps > 1 /\ peer[1].supersteps > 1
  /\ status = "running" /\ peer[1].status = "running"
  /\ st.errors # <<>> /\ peer[1].st.errors = <<>>
  /\ get_workflow_status(1).current_step # get_workflow_status(2).current_step

\* C16: a run never raises to its caller: whenever a run ended on a failure,
\* run_workflow_sync returns a result with success = false that has an
\* `errors` list, and the failure that ended the run is in that list.
C16_FailureRecordedInErrors ==
  (status # "running" /\ (raised # "none" \/ st.errors # <<>>)) =>
    LET result == run_workflow_sync IN
    /\ ~result.success
    /\ "errors" \in DOMAIN result
    /\ raised # "none" => \E i \in 1..Len(result.errors) : result.errors[i] = raised

\* the state keys that hold the outputs of the stages
OutputKeys == {"learning_objectives", "current_resources", "generated_content",
               "quiz_questions"}

\* C17: the result of a failed run holds the full errors list of the run and
\* the output of every stage that completed: the objectives, the planned
\* resources, the generated content and the quiz questions of the final
\* state.
C17_PartialResults ==
  (status # "running" /\ ~run_workflow_sync.success) =>
    LET result == run_workflow_sync IN
    /\ "errors" \in DOMAIN result
    /\ result.errors = st.errors
    /\ \A k \in OutputKeys :
         k \in DOMAIN result.partial_results /\ result.partial_results[k] = st[k]

C19_StatusIdempotent ==
  [][\A s \in Threads :
       (seen[s] # <<>> /\ seen'[s] # <<>> /\ seen'[s][1].at = seen[s][1].at)
         => seen'[s][1].result = seen[s][1].result]_vars

\* a session was asked about twice at the same checkpoint, after its run
\* went on without saving one
C19_Witness ==
  \E s \in Sessions :
    /\ seen[s] # <<>>
    /\ seen[s][1].previous = seen[s][1].at
    /\ seen[s][1].at >= 0
    /\ st.session_id = s
    /\ raised = "InvalidUpdateError"

\* C20: every stage invocation that appends to errors increases retry_count
\* by exactly one, in each of the five stages.
C20_ErrorIncrementsRetryCount ==
  \A t \in LastTasks :
    Errored(t) => t.post.retry_count = t.pre.retry_count + 1

(* ------------------------ claims on the verdicts ----------------------- *)

\* the retry verdicts a stage was given so far
Retries(n) == Len(SelectSeq(verdicts[n], LAMBDA v : v = "retry"))

\* C21: a stage that returns without recording an error and without its
\* required output is given the verdict `retry`; in a run without errors no
\* stage is retried more often than the ceiling allows, and a stage that
\* used the ceiling up is not scheduled again.
C21_SilentFailureRetries ==
  /\ \A t \in LastTasks :
       (t.node \in Stages /\ ~Errored(t) /\ Output(t.node, t.post) = <<>>)
         => t.verdict = "retry"
  /\ st.errors = <<>> =>
       \A n \in Stages :
         /\ Retries(n) <= RetryCeiling
         /\ Retries(n) >= RetryCeiling => n \notin scheduled

\* a stage returned nothing without an error, was given `retry` and ran a
\* second time, in a run that recorded no error at all
C21_Witness ==
  /\ st.errors = <<>>
  /\ \E n \in Stages :
       /\ count[n] = 2
       /\ verdicts[n][1] = "retry"
  /\ status # "running"

\* C22: whenever the router after content generation returns `continue`,
\* generated_content holds exactly one record per resource of
\* current_resources, in the same number and for the same resource ids,
\* however often path planning was invoked.
C22_ContentPerResource ==
  \A t \in LastTasks :
    (t.node = "content_generation" /\ t.verdict = "continue")
      => t.post.generated_content = t.post.current_resources

\* C23: whenever the router after assessment generation returns `continue`,
\* every record of generated_content has at least one quiz question whose
\* resource_id refers to it.
C23_QuestionsPerRecord ==
  \A t \in LastTasks :
    (t.node = "assessment_generation" /\ t.verdict = "continue")
      => \A i \in 1..Len(t.post.generated_content) :
           \E j \in 1..Len(t.post.quiz_questions) :
             t.post.quiz_questions[j] = t.post.generated_content[i]

\* C24: a run returns success = true only if the final orchestration was the
\* last stage to execute, found the objectives, the planned resources, the
\* generated content and the quiz questions non-empty, and marked the
\* workflow completed with a learning package; a run that ended before the
\* final orchestration never reports success.
C24_SuccessOnlyAfterOrchestration ==
  status # "running" =>
    /\ run_workflow_sync.success =>
         /\ Len(last) = 1
         /\ last[1].node = "orchestration"
         /\ MissingComponents(last[1].pre) = {}
         /\ \A k \in OutputKeys : last[1].pre[k] # <<>>
         /\ last[1].post.workflow_status = "completed"
         /\ last[1].post.learning_package
    /\ count["orchestration"] = 0 => ~run_workflow_sync.success

\* a run that went through all five stages and returned success
C24_Witness ==
  /\ status = "done"
  /\ run_workflow_sync.success
  /\ count["orchestration"] = 1

\* C26: in the final state of every run that reached END, should_continue
\* is false, and a status query on the session of such a run never reports
\* should_continue = true.
C26_TerminatedRunsStop ==
  status = "done" =>
    /\ ~st.should_continue
    /\ ~get_workflow_status(st.session_id).should_continue

\* C27: the progress percentage a status query reports is a function of the
\* reported step alone: 20 for the first stage, 100 for the final one, and
\* never lower for a later stage than for an earlier one; and every value
\* workflow_step takes during a run is a key of the table.
C27_ProgressIsFunctionOfStep ==
  LET reports == {get_workflow_status(s) : s \in Asked}
                   \cup {seen[s][1].result : s \in {a \in Asked : seen[a] # <<>>}}
  IN  /\ \A r \in reports :
           /\ StepRank(r.current_step) = 1 => r.progress_percentage = 20
           /\ StepRank(r.current_step) = 5 => r.progress_percentage = 100
      /\ \A r, q \in reports :
           /\ r.current_step = q.current_step
                => r.progress_percentage = q.progress_percentage
           /\ (1 <= StepRank(r.current_step) /\ StepRank(r.current_step) <= StepRank(q.current_step))
                => r.progress_percentage <= q.progress_percentage
      /\ StepRank(st.workflow_step) >= 1
      /\ \A t \in LastTasks : StepRank(t.post.workflow_step) >= 1
      /\ \A s \in Sessions : saved[s] # <<>> => StepRank(saved[s][1].values.workflow_step) >= 1

\* a session was asked about while it was at an early stage, and its latest
\* checkpoint is now at the final one
C27_Witness ==
  \E s \in Sessions :
    /\ seen[s] # <<>>
    /\ seen[s][1].result.current_step = "path_planning"
    /\ seen[s][1].result.progress_percentage = 40
    /\ get_workflow_status(s).current_step = "orchestration_complete"
    /\ get_workflow_status(s).progress_percentage = 100

\* C28: a status query reports a progress of 100 only for a session whose
\* run completed successfully: the final orchestration ran, validated the
\* outputs and set should_continue to false.  It never reports 100 while the
\* final orchestration has not run, nor after it failed.
C28_FullProgressOnlyWhenCompleted ==
  get_workflow_status(st.session_id).progress_percentage = 100 =>
    /\ count["orchestration"] > 0
    /\ status = "done"
    /\ st.errors = <<>>
    /\ ~st.should_continue

\* C29: constructing the engine assigns the checkpoint store before the
\* graph is compiled against it: no constructor raises, the store is
\* assigned when the compile statement is reached, and a graph that was
\* compiled belongs to an engine that has the store.
C29_StoreBeforeCompile ==
  \A e \in Engines :
    /\ engine[e].raised = "none"
    /\ (engine[e].pc < Len(InitStatements) /\ NextStatement(engine[e]).line = CompileLine)
         => "memory" \in engine[e].attrs
    /\ engine[e].compiled => "memory" \in engine[e].attrs

\* C30: process_new_learner writes learning-path, learning-resource and
\* quiz records only after the run returned success = true; when the run
\* failed none of them is written, the learner profile is the only record,
\* and the value returned has status `failed` and carries the errors of the
\* run.
C30_RecordsOnlyAfterSuccess ==
  LET written == Len(db.learning_paths) + Len(db.learning_resources) + Len(db.quizzes) IN
  /\ written > 0 => (status \in {"done", "raised"} /\ run_workflow_sync.success)
  /\ (reply # <<>> /\ status \in {"done", "raised"} /\ ~run_workflow_sync.success) =>
       /\ written = 0
       /\ Len(db.learner_profiles) = 1
       /\ "status" \in DOMAIN reply[1]
       /\ reply[1].status = "failed"
       /\ reply[1].errors = st.errors

====
